---- MODULE Spec2Model ----
(***************************************************************************)
(* Madara chat bot (src/main.py): the two SQLite tables, the intent        *)
(* extraction regexes, the channel-membership gate, the group reply        *)
(* policy and the handlers registered with the telegram Application.       *)
(*                                                                         *)
(* A text is a sequence of characters, each a string: an ASCII character   *)
(* is itself, any other is named by its code point ("U+017F"), so that the *)
(* regular expressions of extract_remember_intent and wants_forget are     *)
(* matched character by character, as re.match / re.search match them.     *)
(***************************************************************************)
EXTENDS Integers, Sequences, FiniteSets, TLC

(***************************************************************************)
(* Bounds of the model.                                                    *)
(***************************************************************************)
NumUsers == 2
NumGroups == 2
\* the requests to /webhook that are handled at the same time
NumTasks == 2

(***************************************************************************)
(* Characters and character classes (Python re, str patterns).             *)
(***************************************************************************)
UpperSeq == << "A","B","C","D","E","F","G","H","I","J","K","L","M",
               "N","O","P","Q","R","S","T","U","V","W","X","Y","Z" >>
LowerSeq == << "a","b","c","d","e","f","g","h","i","j","k","l","m",
               "n","o","p","q","r","s","t","u","v","w","x","y","z" >>
Upper == { UpperSeq[i] : i \in DOMAIN UpperSeq }
Lower == { LowerSeq[i] : i \in DOMAIN LowerSeq }
Digit == { "0","1","2","3","4","5","6","7","8","9" }
NL == "\n"
\* the letters outside ASCII that re.I folds onto an ASCII letter:
\* LATIN SMALL LETTER LONG S, LATIN CAPITAL LETTER I WITH DOT ABOVE,
\* LATIN SMALL LETTER DOTLESS I, KELVIN SIGN; and COMBINING DOT ABOVE
c_long_s == "U+017F"
c_dotted_I == "U+0130"
c_dotless_i == "U+0131"
c_kelvin == "U+212A"
c_dot_above == "U+0307"
FoldedLetters == { c_long_s, c_dotted_I, c_dotless_i, c_kelvin }
\* \s
Space == { " ", "\t", NL }
\* \w (str pattern: the Unicode letters are word characters)
WordChars == Upper \cup Lower \cup Digit \cup { "_" } \cup FoldedLetters
\* [A-Za-z0-9_\-] under re.I: the class also matches every character whose
\* case folding is in it
KeyChars == Upper \cup Lower \cup Digit \cup { "_", "-" } \cup FoldedLetters

Min(a, b) == IF a < b THEN a ELSE b

\* the least element of a non-empty set of integers
MinOf(S) == CHOOSE a \in S : \A b \in S : a <= b
\* the greatest
MaxOf(S) == CHOOSE a \in S : \A b \in S : b <= a

\* str.lower() on a character that lower-cases to one character
lc(c) == IF c \in Upper THEN LowerSeq[CHOOSE i \in DOMAIN UpperSeq : UpperSeq[i] = c]
         ELSE IF c = c_kelvin THEN "k"
         ELSE c

\* the character a literal of a re.I pattern is compared by
fold(c) == IF c = c_long_s THEN "s"
           ELSE IF c \in { c_dotted_I, c_dotless_i } THEN "i"
           ELSE lc(c)

\* str.lower(): U+0130 lower-cases to the two characters "i", U+0307
lower(s) ==
    LET dotted == { j \in 1..Len(s) : s[j] = c_dotted_I }
        \* the index in lower(s) of the first character s[i] lower-cases to
        at == [ i \in 1..Len(s) |-> i + Cardinality({ j \in dotted : j < i }) ]
        n == Len(s) + Cardinality(dotted)
        src == [ p \in 1..n |-> MaxOf({ i \in 1..Len(s) : at[i] <= p }) ]
    IN  IF dotted = {} THEN [ i \in DOMAIN s |-> lc(s[i]) ]
        ELSE [ p \in 1..n |->
                 IF s[src[p]] # c_dotted_I THEN lc(s[src[p]])
                 ELSE IF p = at[src[p]] THEN "i" ELSE c_dot_above ]

\* the number of consecutive characters of s, from index i on, that are in C
Run(s, i, C) ==
    LET stop == { j \in i..Len(s) : s[j] \notin C }
    IN  IF i > Len(s) THEN 0
        ELSE IF stop = {} THEN Len(s) - i + 1
        ELSE MinOf(stop) - i

\* the number of consecutive characters from index i on that "." matches
\* (no DOTALL flag: any character but the newline), at most max of them
RunDot(s, i, max) ==
    LET stop == { j \in i..Len(s) : s[j] = NL }
    IN  IF i > Len(s) THEN 0
        ELSE IF stop = {} THEN Min(max, Len(s) - i + 1)
        ELSE Min(max, MinOf(stop) - i)

\* str.strip()
strip(s) ==
    LET lead == Run(s, 1, Space)
        keep == { j \in 1..Len(s) : s[j] \notin Space }
        last == IF keep = {} THEN 0 ELSE CHOOSE j \in keep : \A h \in keep : h <= j
    IN  IF keep = {} THEN << >> ELSE SubSeq(s, lead + 1, last)

\* the literal w (given in lower case) matches s at index i under re.I
LitAt(s, i, w) ==
    /\ i >= 1
    /\ i + Len(w) - 1 <= Len(s)
    /\ \A j \in 1..Len(w) : fold(s[i + j - 1]) = w[j]

\* \b at the boundary before index i (between s[i-1] and s[i])
WordBoundary(s, i) ==
    LET before == i > 1 /\ i - 1 <= Len(s) /\ s[i - 1] \in WordChars
        after == i >= 1 /\ i <= Len(s) /\ s[i] \in WordChars
    IN  before # after

\* "substring in string"
Contains(s, w) ==
    \E i \in 1..Len(s) : i + Len(w) - 1 <= Len(s) /\ \A j \in 1..Len(w) : s[i + j - 1] = w[j]

(***************************************************************************)
(* Program constants of the regular expressions.                           *)
(***************************************************************************)
MaxKeyLen == 32
MaxValueLen == 200

\* literals of the patterns, in lower case (the patterns are compiled with re.I)
w_remember == << "r","e","m","e","m","b","e","r" >>
w_forget == << "f","o","r","g","e","t" >>
w_that == << "t","h","a","t" >>
w_my == << "m","y" >>
w_is == << "i","s" >>
w_madara == << "m","a","d","a","r","a" >>
c_slash == << "/" >>

\* "no match": re.match / re.search returned None
NoMatch == << >>

\* re.search: the leftmost of the indexes at which the pattern matches, 0 when
\* it matches nowhere
Leftmost(hits) == IF hits = {} THEN 0 ELSE MinOf(hits)

\* the index where the group (.{1,200}) starts, after "\s" repeated at least
\* minws times from index y on: the greedy \s* gives characters back until "."
\* has a character to match; 0 when there is no such index
ValueStart(s, y, minws) ==
    LET ok == { a \in (y + minws)..(y + Run(s, y, Space)) : RunDot(s, a, 1) = 1 }
    IN  IF ok = {} THEN 0 ELSE MaxOf(ok)

\* what the greedy group (.{1,200}) captures from index a on
Value(s, a) == SubSeq(s, a, a + RunDot(s, a, MaxValueLen) - 1)

\* ^/remember\s+([A-Za-z0-9_\-]{1,32})\s*=\s*(.{1,200})$  on text.strip(), re.I
CmdRemember(text) ==
    LET t == strip(text)
        k0 == 10 + Run(t, 10, Space)
        kl == Run(t, k0, KeyChars)
        eq == k0 + kl + Run(t, k0 + kl, Space)
        y == eq + 1
        \* "$": the end of the string, or just before a newline that ends it
        ToEnd(a) == LET n == RunDot(t, a, MaxValueLen)
                    IN  /\ n >= 1
                        /\ \/ a + n - 1 = Len(t)
                           \/ a + n = Len(t) /\ t[Len(t)] = NL
        starts == { a \in y..(y + Run(t, y, Space)) : ToEnd(a) }
    IN  IF /\ LitAt(t, 1, c_slash \o w_remember)
           /\ Run(t, 10, Space) >= 1
           /\ kl >= 1 /\ kl <= MaxKeyLen
           /\ eq <= Len(t) /\ t[eq] = "="
           /\ starts # {}
        THEN << lower(SubSeq(t, k0, k0 + kl - 1)), strip(Value(t, MaxOf(starts))) >>
        ELSE NoMatch

\* my\s+([a-zA-Z0-9_\-]{1,32})\s+(?:is|=)\s+(.{1,200})  at index q
MyKeyIsValue(t, q) ==
    LET k0 == q + 2 + Run(t, q + 2, Space)
        kl == Run(t, k0, KeyChars)
        x == k0 + kl + Run(t, k0 + kl, Space)
        y == IF LitAt(t, x, w_is) THEN x + 2 ELSE x + 1
        a == ValueStart(t, y, 1)
    IN  IF /\ LitAt(t, q, w_my)
           /\ Run(t, q + 2, Space) >= 1
           /\ kl >= 1 /\ kl <= MaxKeyLen
           /\ Run(t, k0 + kl, Space) >= 1
           /\ (LitAt(t, x, w_is) \/ LitAt(t, x, << "=" >>))
           /\ a # 0
        THEN << lower(SubSeq(t, k0, k0 + kl - 1)), strip(Value(t, a)) >>
        ELSE NoMatch

\* \bremember\b\s+(?:that\s+)?my\s+(key)\s+(?:is|=)\s+(value)  at index i, re.I
NLRememberAt(t, i) ==
    LET p == i + 8 + Run(t, i + 8, Space)
        afterThat == p + 4 + Run(t, p + 4, Space)
        viaThat == IF LitAt(t, p, w_that) /\ Run(t, p + 4, Space) >= 1
                   THEN MyKeyIsValue(t, afterThat) ELSE NoMatch
    IN  IF /\ WordBoundary(t, i)
           /\ LitAt(t, i, w_remember)
           /\ WordBoundary(t, i + 8)
           /\ Run(t, i + 8, Space) >= 1
        THEN IF viaThat # NoMatch THEN viaThat ELSE MyKeyIsValue(t, p)
        ELSE NoMatch

\* \bremember\b\s+([a-zA-Z0-9_\-]{1,32})\s*[:=]\s*(.{1,200})  at index i, re.I
LooseRememberAt(t, i) ==
    LET k0 == i + 8 + Run(t, i + 8, Space)
        kl == Run(t, k0, KeyChars)
        x == k0 + kl + Run(t, k0 + kl, Space)
        a == ValueStart(t, x + 1, 0)
    IN  IF /\ WordBoundary(t, i)
           /\ LitAt(t, i, w_remember)
           /\ WordBoundary(t, i + 8)
           /\ Run(t, i + 8, Space) >= 1
           /\ kl >= 1 /\ kl <= MaxKeyLen
           /\ x <= Len(t) /\ t[x] \in { ":", "=" }
           /\ a # 0
        THEN << lower(SubSeq(t, k0, k0 + kl - 1)), strip(Value(t, a)) >>
        ELSE NoMatch

\* mutant of extract_remember_intent: no remember form is recognised, so that
\* wants_forget decides
extract_remember_intent_none(text) == NoMatch

\* extract_remember_intent: <<key, value>>, or NoMatch for None
extract_remember_intent(text) ==
    LET m == CmdRemember(text)
        m2 == Leftmost({ i \in 1..Len(text) : NLRememberAt(text, i) # NoMatch })
        m3 == Leftmost({ i \in 1..Len(text) : LooseRememberAt(text, i) # NoMatch })
    IN  IF text = << >> THEN NoMatch
        ELSE IF m # NoMatch THEN m
        ELSE IF m2 # 0 THEN NLRememberAt(text, m2)
        ELSE IF m3 # 0 THEN LooseRememberAt(text, m3)
        ELSE NoMatch

\* ^/forget\s+([A-Za-z0-9_\-]{1,32})$  on text.strip(), re.I
CmdForget(text) ==
    LET t == strip(text)
        k0 == 8 + Run(t, 8, Space)
        kl == Run(t, k0, KeyChars)
    IN  IF /\ LitAt(t, 1, c_slash \o w_forget)
           /\ Run(t, 8, Space) >= 1
           /\ kl >= 1 /\ kl <= MaxKeyLen
           /\ \/ k0 + kl - 1 = Len(t)
              \/ k0 + kl = Len(t) /\ t[Len(t)] = NL
        THEN lower(SubSeq(t, k0, k0 + kl - 1))
        ELSE NoMatch

\* \bforget\b\s+my\s+([A-Za-z0-9_\-]{1,32})\b  at index i, re.I: the greedy key
\* gives characters back until a word boundary follows it
NLForgetAt(t, i) ==
    LET q == i + 6 + Run(t, i + 6, Space)
        k0 == q + 2 + Run(t, q + 2, Space)
        lens == { n \in 1..Min(MaxKeyLen, Run(t, k0, KeyChars)) : WordBoundary(t, k0 + n) }
    IN  IF /\ WordBoundary(t, i)
           /\ LitAt(t, i, w_forget)
           /\ WordBoundary(t, i + 6)
           /\ Run(t, i + 6, Space) >= 1
           /\ LitAt(t, q, w_my)
           /\ Run(t, q + 2, Space) >= 1
           /\ lens # {}
        THEN lower(SubSeq(t, k0, k0 + MaxOf(lens) - 1))
        ELSE NoMatch

\* wants_forget: the key, or NoMatch for None
wants_forget(text) ==
    LET m == CmdForget(text)
        m2 == Leftmost({ i \in 1..Len(text) : NLForgetAt(text, i) # NoMatch })
    IN  IF text = << >> THEN NoMatch
        ELSE IF m # NoMatch THEN m
        ELSE IF m2 # 0 THEN NLForgetAt(text, m2)
        ELSE NoMatch

\* is_madara_call; "@madara" in t implies "madara" in t
is_madara_call(text) ==
    IF text = << >> THEN FALSE
    ELSE Contains(lower(text), w_madara) \/ Contains(lower(text), << "@" >> \o w_madara)

(***************************************************************************)
(* The texts of the inbound messages the model sends.                      *)
(***************************************************************************)
\* hello there
t_hello == << "h","e","l","l","o"," ","t","h","e","r","e" >>
\* hey MADARA
t_madara == << "h","e","y"," ","M","A","D","A","R","A" >>
\* /remember name=Rex
t_cmd_remember_rex == << "/","r","e","m","e","m","b","e","r"," ","n","a","m","e","=","R","e","x" >>
\* /remember Name = Pain
t_cmd_remember_pain == << "/","r","e","m","e","m","b","e","r"," ","N","a","m","e"," ","="," ","P","a","i","n" >>
\* /remember
t_cmd_remember_nokey == << "/","r","e","m","e","m","b","e","r" >>
\* /remember name Rex
t_cmd_remember_noeq == << "/","r","e","m","e","m","b","e","r"," ","n","a","m","e"," ","R","e","x" >>
\* /forget name
t_cmd_forget_name == << "/","f","o","r","g","e","t"," ","n","a","m","e" >>
\* /forget city
t_cmd_forget_city == << "/","f","o","r","g","e","t"," ","c","i","t","y" >>
\* remember my name is Rex
t_remember_rex == << "r","e","m","e","m","b","e","r"," ","m","y"," ","n","a","m","e"," ","i","s"," ","R","e","x" >>
\* Remember that my Name = Pain
t_remember_pain == << "R","e","m","e","m","b","e","r"," ","t","h","a","t"," ","m","y"," ","N","a","m","e"," ","="," ","P","a","i","n" >>
\* pls remember name: Rex
t_remember_loose == << "p","l","s"," ","r","e","m","e","m","b","e","r"," ","n","a","m","e",":"," ","R","e","x" >>
\* forget my name
t_forget_name == << "f","o","r","g","e","t"," ","m","y"," ","n","a","m","e" >>
\* Forget my city!
t_forget_city == << "F","o","r","g","e","t"," ","m","y"," ","c","i","t","y","!" >>
\* forget my name, remember my name is Rex
t_forget_then_remember == << "f","o","r","g","e","t"," ","m","y"," ","n","a","m","e",","," ","r","e","m","e","m","b","e","r"," ","m","y"," ","n","a","m","e"," ","i","s"," ","R","e","x" >>
\* remember my U+017F ize is 5  (the key starts with LATIN SMALL LETTER LONG S)
t_remember_long_s == << "r","e","m","e","m","b","e","r"," ","m","y"," ",c_long_s,"i","z","e"," ","i","s"," ","5" >>
\* remember name= followed by 201 times "b"
t_remember_long_value == << "r","e","m","e","m","b","e","r"," ","n","a","m","e","=" >> \o [ i \in 1..(MaxValueLen + 1) |-> "b" ]
\* /remember a=remember my name is Rex
t_cmd_remember_then_nl == << "/","r","e","m","e","m","b","e","r"," ","a","=","r","e","m","e","m","b","e","r"," ","m","y"," ","n","a","m","e"," ","i","s"," ","R","e","x" >>
\* remember tip: remember my name is Rex
t_remember_loose_then_nl == << "r","e","m","e","m","b","e","r"," ","t","i","p",":"," ","r","e","m","e","m","b","e","r"," ","m","y"," ","n","a","m","e"," ","i","s"," ","R","e","x" >>
\* /start
t_start == << "/","s","t","a","r","t" >>
\* /help
t_help == << "/","h","e","l","p" >>
\* /mydata
t_mydata == << "/","m","y","d","a","t","a" >>
\* /mode
t_mode_none == << "/","m","o","d","e" >>
\* /mode always
t_mode_always == << "/","m","o","d","e"," ","a","l","w","a","y","s" >>
\* /mode mention now
t_mode_mention == << "/","m","o","d","e"," ","m","e","n","t","i","o","n"," ","n","o","w" >>
\* /mode loud
t_mode_loud == << "/","m","o","d","e"," ","l","o","u","d" >>
\* /MODE Always
t_mode_upper == << "/","M","O","D","E"," ","A","l","w","a","y","s" >>
\* /settings
t_unknown == << "/","s","e","t","t","i","n","g","s" >>
\* a message with no text (a photo, a sticker): message.text is None
t_none == << >>

ModeTexts == { t_mode_none, t_mode_always, t_mode_mention, t_mode_loud, t_mode_upper }
MemoryCommandTexts == { t_cmd_remember_rex, t_cmd_remember_pain, t_cmd_remember_nokey,
                        t_cmd_remember_noeq, t_cmd_forget_name, t_cmd_forget_city }
CommandTexts == { t_start, t_help, t_mydata, t_unknown } \cup MemoryCommandTexts
MemoryTexts == { t_remember_rex, t_remember_pain, t_remember_loose, t_forget_name, t_forget_city,
                 t_forget_then_remember }
ChatTexts == { t_hello, t_madara }
\* the texts that write table memory, in each of the remember forms
KeyTexts == { t_cmd_remember_rex, t_remember_rex, t_remember_pain, t_remember_loose,
              t_remember_long_s, t_remember_long_value, t_forget_name,
              t_forget_then_remember, t_cmd_remember_then_nl, t_remember_loose_then_nl }
Texts == ModeTexts \cup CommandTexts \cup MemoryTexts \cup ChatTexts \cup { t_none }

(***************************************************************************)
(* State.                                                                  *)
(*   REQUIRED_CHANNEL, OWNER_ID  the environment configuration             *)
(*   memory          the rows of table memory: [user_id, k, v]             *)
(*                   (updated_at is written and never read)                *)
(*   group_settings  the rows of table group_settings: [chat_id, mode]     *)
(*   last            the update POSTed to /webhook that is being answered: *)
(*                   the update, the handler that ran, what the gate said, *)
(*                   the calls the handler made in order, and both tables  *)
(*                   as they were before it ran                            *)
(*   tasks           the requests to /webhook in flight at the same time,  *)
(*                   each a coroutine of the event loop: the update it     *)
(*                   answers, the await it is suspended at, and the rank   *)
(*                   of its write among the writes to table memory         *)
(***************************************************************************)
VARIABLES REQUIRED_CHANNEL, OWNER_ID, memory, group_settings, last, tasks

vars == << REQUIRED_CHANNEL, OWNER_ID, memory, group_settings, last, tasks >>

Users == 1..NumUsers
\* update.effective_user is None
NoUser == 0
\* chat ids of the groups
Groups == { 100 + g : g \in 1..NumGroups }

PrivateChat(u) == [ type |-> "private", id |-> u ]
GroupChat(g) == [ type |-> IF g % 2 = 1 THEN "group" ELSE "supergroup", id |-> g ]
GroupChats == { GroupChat(g) : g \in Groups }
\* the chats user u writes in
ChatsOf(u) == IF u = NoUser THEN GroupChats ELSE { PrivateChat(u) } \cup GroupChats

\* member.status of get_chat_member; "error" when the call raises
Statuses == { "member", "administrator", "creator", "left", "kicked", "restricted", "error" }
\* update.message or update.edited_message holds the message
Kinds == { "message", "edited_message" }
\* reply_to_message: none, or the account that wrote the message replied to
ReplyTo == { "none", "this_bot", "other_bot", "human" }

Update(kind, user, chat, text, reply_to, status, ai_ok) ==
    [ kind |-> kind, user |-> user, chat |-> chat, text |-> text,
      reply_to |-> reply_to, status |-> status, ai_ok |-> ai_ok ]

\* one call a handler makes: a storage call, a Bot API call or the reply generator
Step(op, msg, data) == [ op |-> op, msg |-> msg, data |-> data ]
Send(msg, data) == Step("reply_text", msg, data)
Raise == Step("raise", "AttributeError", {})

\* the words of /mode and of the commands
w_mention == << "m","e","n","t","i","o","n" >>
w_always == << "a","l","w","a","y","s" >>
w_start == << "s","t","a","r","t" >>
w_help == << "h","e","l","p" >>
w_mydata == << "m","y","d","a","t","a" >>
w_mode == << "m","o","d","e" >>

(***************************************************************************)
(* The two tables.                                                         *)
(***************************************************************************)
\* mutant of mem_set: a plain INSERT, the row of the same (user_id, k) stays
mem_set_appends(rows, user_id, k, v) ==
    rows \cup { [ user_id |-> user_id, k |-> k, v |-> v ] }

\* INSERT ... ON CONFLICT(user_id,k) DO UPDATE SET v=excluded.v
mem_set(rows, user_id, k, v) ==
    { r \in rows : ~(r.user_id = user_id /\ r.k = k) }
        \cup { [ user_id |-> user_id, k |-> k, v |-> v ] }

\* SELECT k,v ... WHERE user_id=?, as the pairs of the dict
mem_get_all(rows, user_id) == { << r.k, r.v >> : r \in { x \in rows : x.user_id = user_id } }

\* mutant of mem_del: the DELETE has no "user_id=?" condition
mem_del_every_user(rows, user_id, k) == { r \in rows : r.k # k }

\* mutant of mem_del: the DELETE matches no row
mem_del_keeps(rows, user_id, k) == rows

\* DELETE ... WHERE user_id=? AND k=?
mem_del(rows, user_id, k) == { r \in rows : ~(r.user_id = user_id /\ r.k = k) }
\* cur.rowcount > 0
mem_del_found(rows, user_id, k) == \E r \in rows : r.user_id = user_id /\ r.k = k

\* mutant of group_get_mode: the stored row is ignored
group_get_mode_default(rows, chat_id) == w_mention

\* SELECT mode ... WHERE chat_id=?, "mention" when there is no row
group_get_mode(rows, chat_id) ==
    IF \E r \in rows : r.chat_id = chat_id
    THEN (CHOOSE r \in rows : r.chat_id = chat_id).mode
    ELSE w_mention

\* INSERT ... ON CONFLICT(chat_id) DO UPDATE SET mode=excluded.mode
group_set_mode(rows, chat_id, mode) ==
    { r \in rows : r.chat_id # chat_id } \cup { [ chat_id |-> chat_id, mode |-> mode ] }

(***************************************************************************)
(* must_join_guard: whether the update is allowed, and the calls made.     *)
(***************************************************************************)
\* mutant of MemberStatuses: a user who left still counts as a member
MemberStatuses_left == { "member", "administrator", "creator", "left" }

\* member.status in ("member", "administrator", "creator")
MemberStatuses == { "member", "administrator", "creator" }

\* mutant of must_join_guard: membership is asked for without a channel
must_join_guard_queries(e) ==
    IF e.user = NoUser THEN [ allowed |-> TRUE, trace |-> << >> ]
    ELSE IF e.status \in MemberStatuses
    THEN [ allowed |-> TRUE, trace |-> << Step("get_chat_member", e.status, {}) >> ]
    ELSE [ allowed |-> FALSE,
           trace |-> << Step("get_chat_member", e.status, {}) >>
                     \o (IF e.kind = "message" THEN << Send("must_join", {}) >> ELSE << >>) ]

must_join_guard(e) ==
    IF REQUIRED_CHANNEL = "" THEN [ allowed |-> TRUE, trace |-> << >> ]
    ELSE IF e.user = NoUser THEN [ allowed |-> TRUE, trace |-> << >> ]
    ELSE IF e.status \in MemberStatuses
    THEN [ allowed |-> TRUE, trace |-> << Step("get_chat_member", e.status, {}) >> ]
    ELSE [ allowed |-> FALSE,
           trace |-> << Step("get_chat_member", e.status, {}) >>
                     \o (IF e.kind = "message" THEN << Send("must_join", {}) >> ELSE << >>) ]

\* update.message.reply_text(...): update.message is None for an edited message
reply_text(e, msg, data) == IF e.kind = "message" THEN << Send(msg, data) >> ELSE << Raise >>

\* what a handler did: the tables after it, what the gate said, its calls
Result(mem, gs, gate, trace) ==
    [ memory |-> mem, group_settings |-> gs, gate |-> gate, trace |-> trace ]

GateWord(g) == IF g.allowed THEN "allow" ELSE "deny"

(***************************************************************************)
(* The command handlers.                                                   *)
(***************************************************************************)
\* mutant of start_cmd_run: no return when the gate denies
start_cmd_run_ignores_gate(e) ==
    LET g == must_join_guard(e)
    IN  Result(memory, group_settings, GateWord(g), g.trace \o reply_text(e, "welcome", {}))

start_cmd_run(e) ==
    LET g == must_join_guard(e)
    IN  IF ~g.allowed THEN Result(memory, group_settings, "deny", g.trace)
        ELSE Result(memory, group_settings, "allow", g.trace \o reply_text(e, "welcome", {}))

help_cmd_run(e) ==
    Result(memory, group_settings, "not_called", reply_text(e, "help", {}))

mydata_cmd_run(e) ==
    LET g == must_join_guard(e)
        mem == mem_get_all(memory, e.user)
        read == Step("mem_get_all", "", mem)
    IN  IF ~g.allowed THEN Result(memory, group_settings, "deny", g.trace)
        ELSE IF e.user = NoUser
        THEN Result(memory, group_settings, "allow", g.trace \o << Raise >>)
        ELSE IF mem = {}
        THEN Result(memory, group_settings, "allow",
                    g.trace \o << read >> \o reply_text(e, "no_memory", {}))
        ELSE Result(memory, group_settings, "allow",
                    g.trace \o << read >> \o reply_text(e, "mydata", mem))

\* text.split(): the start and the length of the token after the first one
SecondToken(t) ==
    LET a0 == 1 + Run(t, 1, Space)
        stop0 == { j \in a0..Len(t) : t[j] \in Space }
        a1 == IF stop0 = {} THEN Len(t) + 1
              ELSE MinOf(stop0) + Run(t, MinOf(stop0), Space)
        stop1 == { j \in a1..Len(t) : t[j] \in Space }
        b1 == IF stop1 = {} THEN Len(t) ELSE MinOf(stop1) - 1
    IN  IF a1 > Len(t) THEN << >> ELSE SubSeq(t, a1, b1)

\* mutant of not_owner: the owner check is skipped
not_owner_never(e) == FALSE

\* OWNER_ID and user.id != OWNER_ID
not_owner(e) == OWNER_ID # 0 /\ e.user # OWNER_ID

\* mutant of bad_mode_arg: only the missing argument is rejected
bad_mode_arg_missing(arg) == arg = << >>

\* len(parts) < 2 or parts[1] not in ("mention", "always")
bad_mode_arg(arg) == arg = << >> \/ arg \notin { w_mention, w_always }

mode_cmd_run(e) ==
    LET arg == SecondToken(e.text)
    IN  IF e.chat.type \notin { "group", "supergroup" }
        THEN Result(memory, group_settings, "not_called", reply_text(e, "groups_only", {}))
        ELSE IF OWNER_ID # 0 /\ e.user = NoUser
        THEN Result(memory, group_settings, "not_called", << Raise >>)
        ELSE IF not_owner(e)
        THEN Result(memory, group_settings, "not_called", reply_text(e, "only_owner", {}))
        ELSE IF e.kind # "message"
        THEN Result(memory, group_settings, "not_called", << Raise >>)
        ELSE IF bad_mode_arg(arg)
        THEN Result(memory, group_settings, "not_called", reply_text(e, "usage_mode", {}))
        ELSE Result(memory, group_set_mode(group_settings, e.chat.id, arg), "not_called",
                    << Step("group_set_mode", "", {}) >> \o reply_text(e, "mode_set", {}))

(***************************************************************************)
(* on_message, the handler of the text messages.                           *)
(***************************************************************************)
\* mutant of in_group_chat: every chat is taken for a group
in_group_chat_any(chat) == TRUE

\* chat.type in (ChatType.GROUP, ChatType.SUPERGROUP)
in_group_chat(chat) == chat.type \in { "group", "supergroup" }

\* mutant of save_and_confirm: no return after the confirmation, the handler
\* goes on to the reply generator
save_and_confirm_no_return(rem) ==
    << Step("mem_set", "", { rem }), Send("saved", { rem }),
       Step("ai_reply", "", {}), Send("ai_reply", {}) >>

\* mem_set(user.id, k, v); reply_text("Saved ..."); return
save_and_confirm(rem) == << Step("mem_set", "", { rem }), Send("saved", { rem }) >>

on_message_run(e) ==
    LET g == must_join_guard(e)
        text == strip(e.text)
        rem == extract_remember_intent(text)
        fk == wants_forget(text)
        in_group == in_group_chat(e.chat)
        mode == group_get_mode(group_settings, e.chat.id)
        read_mode == IF in_group THEN << Step("group_get_mode", "", {}) >> ELSE << >>
        replied_to_bot == e.reply_to \in { "this_bot", "other_bot" }
        mem == mem_get_all(memory, e.user)
    IN  IF e.kind # "message" \/ e.text = << >>
        THEN Result(memory, group_settings, "not_called", << >>)
        ELSE IF ~g.allowed
        THEN Result(memory, group_settings, "deny", g.trace)
        ELSE IF rem # NoMatch
        THEN IF e.user = NoUser
             THEN Result(memory, group_settings, "allow", g.trace \o << Raise >>)
             ELSE Result(mem_set(memory, e.user, rem[1], rem[2]), group_settings, "allow",
                         g.trace \o save_and_confirm(rem))
        ELSE IF fk # NoMatch
        THEN IF e.user = NoUser
             THEN Result(memory, group_settings, "allow", g.trace \o << Raise >>)
             ELSE Result(mem_del(memory, e.user, fk), group_settings, "allow",
                         g.trace \o << Step("mem_del", "", {}),
                                       Send(IF mem_del_found(memory, e.user, fk)
                                            THEN "deleted" ELSE "not_saved", {}) >>)
        ELSE IF in_group /\ mode = w_mention /\ ~(is_madara_call(text) \/ replied_to_bot)
        THEN Result(memory, group_settings, "allow", g.trace \o read_mode)
        ELSE IF e.user = NoUser
        THEN Result(memory, group_settings, "allow", g.trace \o read_mode \o << Raise >>)
        ELSE IF ~e.ai_ok
        THEN Result(memory, group_settings, "allow",
                    g.trace \o read_mode
                        \o << Step("mem_get_all", "", mem), Step("ai_reply", "raised", mem) >>)
        ELSE Result(memory, group_settings, "allow",
                    g.trace \o read_mode
                        \o << Step("mem_get_all", "", mem), Step("ai_reply", "", mem),
                              Send("ai_reply", {}) >>)

(***************************************************************************)
(* application.add_handler: which handler process_update runs.             *)
(***************************************************************************)
\* filters.COMMAND: the message starts with a bot_command entity
CommandChars == Upper \cup Lower \cup Digit \cup { "_" }
IsCommand(e) == Len(e.text) >= 2 /\ e.text[1] = "/" /\ e.text[2] \in CommandChars
CommandName(e) == lower(SubSeq(e.text, 2, 1 + Run(e.text, 2, CommandChars)))
\* CommandHandler(command, ...): messages and edited messages
CommandHandler(command, e) == IsCommand(e) /\ CommandName(e) = command
\* MessageHandler(filters.TEXT & ~filters.COMMAND, ...)
MessageHandler(e) == e.text # << >> /\ ~IsCommand(e)

Idle == [ handler |-> "idle" ]

Tasks == 1..NumTasks
\* no request is being handled by the task
NoTask == [ pc |-> "idle" ]

\* process_update(e) ran handler `name` with result r
Handled(e, name, r) ==
    /\ memory' = r.memory
    /\ group_settings' = r.group_settings
    /\ last' = [ handler |-> name, ev |-> e, gate |-> r.gate, trace |-> r.trace,
                 memory0 |-> memory, group_settings0 |-> group_settings ]
    /\ UNCHANGED << REQUIRED_CHANNEL, OWNER_ID, tasks >>

start_cmd(e) ==
    /\ last = Idle
    /\ CommandHandler(w_start, e)
    /\ Handled(e, "start_cmd", start_cmd_run(e))

help_cmd(e) ==
    /\ last = Idle
    /\ CommandHandler(w_help, e)
    /\ Handled(e, "help_cmd", help_cmd_run(e))

mydata_cmd(e) ==
    /\ last = Idle
    /\ CommandHandler(w_mydata, e)
    /\ Handled(e, "mydata_cmd", mydata_cmd_run(e))

mode_cmd(e) ==
    /\ last = Idle
    /\ CommandHandler(w_mode, e)
    /\ Handled(e, "mode_cmd", mode_cmd_run(e))

on_message(e) ==
    /\ last = Idle
    /\ MessageHandler(e)
    /\ Handled(e, "on_message", on_message_run(e))

\* no registered handler takes the update: process_update does nothing
no_handler(e) ==
    /\ last = Idle
    /\ ~MessageHandler(e)
    /\ \A c \in { w_start, w_help, w_mydata, w_mode } : ~CommandHandler(c, e)
    /\ Handled(e, "none", Result(memory, group_settings, "not_called", << >>))

\* telegram_webhook returns Response(status_code=200)
webhook_response ==
    /\ last # Idle
    /\ last' = Idle
    /\ UNCHANGED << REQUIRED_CHANNEL, OWNER_ID, memory, group_settings, tasks >>

(***************************************************************************)
(* The updates the model delivers.                                         *)
(***************************************************************************)
\* every status of the gate, on the gated and the ungated commands and a text
GateUpdates ==
    UNION { { Update(k, u, c, t, "none", s, TRUE) :
                k \in Kinds,
                c \in { ch \in ChatsOf(u) : u = NoUser \/ ch.type = "private" },
                t \in { t_start, t_help, t_mydata, t_hello, t_mode_always },
                s \in Statuses } : u \in Users \cup { NoUser } }
\* every text, from a member and from a user who left
TextUpdates ==
    UNION { { Update("message", u, c, t, "none", s, TRUE) :
                c \in ChatsOf(u), t \in Texts, s \in { "member", "left" } } :
            u \in Users \cup { NoUser } }
\* the texts that are no memory intent, as replies and with the generator failing
ChatUpdates ==
    UNION { { Update("message", u, c, t, r, "member", a) :
                c \in ChatsOf(u), t \in ChatTexts, r \in ReplyTo, a \in BOOLEAN } :
            u \in Users }
\* edited messages
EditedUpdates ==
    UNION { { Update("edited_message", u, c, t, "none", "member", TRUE) :
                c \in ChatsOf(u), t \in ModeTexts \cup { t_remember_rex } } :
            u \in Users }

Updates == GateUpdates \cup TextUpdates \cup ChatUpdates \cup EditedUpdates

Init ==
    /\ REQUIRED_CHANNEL \in { "", "@channel" }
    /\ OWNER_ID \in { 0, 1 }
    /\ memory = {}
    /\ group_settings = {}
    /\ last = Idle
    /\ tasks = [ t \in Tasks |-> NoTask ]

Next ==
    \/ \E e \in Updates :
        \/ start_cmd(e)
        \/ help_cmd(e)
        \/ mydata_cmd(e)
        \/ mode_cmd(e)
        \/ on_message(e)
        \/ no_handler(e)
    \/ webhook_response

Spec == Init /\ [][Next]_vars

(***************************************************************************)
(* The conversation about table memory: every update but the /mode         *)
(* commands, so that every group keeps the default mode.                   *)
(***************************************************************************)
MemoryUpdates == { e \in Updates : e.text \notin ModeTexts }

NextMemory ==
    \/ \E e \in MemoryUpdates :
        \/ start_cmd(e)
        \/ help_cmd(e)
        \/ mydata_cmd(e)
        \/ on_message(e)
        \/ no_handler(e)
    \/ webhook_response

SpecMemory == Init /\ [][NextMemory]_vars

(***************************************************************************)
(* The group reply policy: every update but the remember and forget        *)
(* commands and the sentences about the key "name", so that table memory   *)
(* stays empty ("Forget my city!" finds no row to delete).                 *)
(***************************************************************************)
GroupUpdates ==
    { e \in Updates : e.text \notin (MemoryTexts \ { t_forget_city }) \cup MemoryCommandTexts }

NextGroup ==
    \/ \E e \in GroupUpdates :
        \/ start_cmd(e)
        \/ help_cmd(e)
        \/ mydata_cmd(e)
        \/ mode_cmd(e)
        \/ on_message(e)
        \/ no_handler(e)
    \/ webhook_response

SpecGroup == Init /\ [][NextGroup]_vars

(***************************************************************************)
(* The keys and values of table memory: the remember forms, a key with a   *)
(* letter outside ASCII and a value longer than the pattern takes, sent by *)
(* members in their private chats.                                         *)
(***************************************************************************)
KeyUpdates ==
    { Update("message", u, PrivateChat(u), t, "none", "member", TRUE) :
        u \in Users, t \in KeyTexts \cup { t_mydata } }

NextKeys ==
    \/ \E e \in KeyUpdates :
        \/ mydata_cmd(e)
        \/ on_message(e)
        \/ no_handler(e)
    \/ webhook_response

SpecKeys == Init /\ [][NextKeys]_vars

(***************************************************************************)
(* Both tables at once: members who save and forget a key, list their      *)
(* memory, chat and set the mode, in their private chats and in the        *)
(* groups.                                                                 *)
(***************************************************************************)
TableTexts == { t_remember_rex, t_forget_name, t_mydata, t_start, t_help, t_hello,
                t_mode_always, t_mode_mention, t_mode_loud }

TableUpdates ==
    UNION { { Update("message", u, c, t, "none", "member", TRUE) :
                c \in ChatsOf(u), t \in TableTexts } : u \in Users }

NextTables ==
    \/ \E e \in TableUpdates :
        \/ start_cmd(e)
        \/ help_cmd(e)
        \/ mydata_cmd(e)
        \/ mode_cmd(e)
        \/ on_message(e)
    \/ webhook_response

SpecTables == Init /\ [][NextTables]_vars

(***************************************************************************)
(* Requests handled at the same time.  telegram_webhook awaits             *)
(* process_update, which awaits on_message; the event loop runs the        *)
(* coroutine of another request only while this one is suspended at an     *)
(* await: get_chat_member in must_join_guard, when a channel is            *)
(* configured, and reply_text.  The sqlite3 calls are synchronous, each a  *)
(* single statement on its own connection.                                 *)
(***************************************************************************)
\* two remembers of the same key with different values, and a forget of it
ConcurrentUpdates ==
    { Update("message", u, PrivateChat(u), t, "none", "member", TRUE) :
        u \in Users, t \in { t_remember_rex, t_remember_pain, t_forget_name } }

\* the tasks that have written table memory
Writers == { t \in Tasks : tasks[t].pc # "idle" /\ tasks[t].rank > 0 }

\* the run r of on_message wrote table memory
Wrote(r) == \E i \in DOMAIN r.trace : r.trace[i].op \in { "mem_set", "mem_del" }

\* on_message ran, with result r, from where it resumed to the await of reply_text
RunToReply(t, e, r) ==
    /\ memory' = r.memory
    /\ tasks' = [ tasks EXCEPT ![t] =
                    [ pc |-> "reply_text", ev |-> e,
                      rank |-> IF Wrote(r) THEN Cardinality(Writers) + 1 ELSE 0 ] ]

\* POST /webhook: process_update(update) runs on_message up to its first await;
\* the tasks are numbered in the order the requests arrive
telegram_webhook(t, e) ==
    /\ tasks[t] = NoTask
    /\ \A o \in 1..(t - 1) : tasks[o] # NoTask
    /\ MessageHandler(e)
    /\ IF REQUIRED_CHANNEL = ""
       THEN RunToReply(t, e, on_message_run(e))
       ELSE /\ tasks' = [ tasks EXCEPT ![t] = [ pc |-> "get_chat_member", ev |-> e, rank |-> 0 ] ]
            /\ UNCHANGED memory
    /\ UNCHANGED << REQUIRED_CHANNEL, OWNER_ID, group_settings, last >>

\* get_chat_member has answered: on_message resumes
on_message_resume(t) ==
    /\ tasks[t].pc = "get_chat_member"
    /\ RunToReply(t, tasks[t].ev, on_message_run(tasks[t].ev))
    /\ UNCHANGED << REQUIRED_CHANNEL, OWNER_ID, group_settings, last >>

\* reply_text has been sent: on_message returns, the request is answered
on_message_return(t) ==
    /\ tasks[t].pc = "reply_text"
    /\ tasks' = [ tasks EXCEPT ![t].pc = "done" ]
    /\ UNCHANGED << REQUIRED_CHANNEL, OWNER_ID, memory, group_settings, last >>

NextConcurrent ==
    \E t \in Tasks :
        \/ \E e \in ConcurrentUpdates : telegram_webhook(t, e)
        \/ on_message_resume(t)
        \/ on_message_return(t)

\* OWNER_ID is read by mode_cmd only
InitConcurrent == Init /\ OWNER_ID = 0

SpecConcurrent == InitConcurrent /\ [][NextConcurrent]_vars

(***************************************************************************)
(* Vocabulary of the properties.                                           *)
(***************************************************************************)
\* the outbound messages of a handler run, in order
Replies(trace) == SelectSeq(trace, LAMBDA st : st.op = "reply_text")
\* the calls that read or write a table
StorageOps == { "mem_set", "mem_del", "mem_get_all", "group_get_mode", "group_set_mode" }
\* an update is being answered, and it is a message sent by a user
Sent == last # Idle /\ last.ev.kind = "message" /\ last.ev.user \in Users
\* the sender is a verified member of the required channel, or there is no gate
Verified(e) == REQUIRED_CHANNEL = "" \/ e.status \in { "member", "administrator", "creator" }
\* table group_settings holds the row (chat_id, mode); it holds no row of chat_id
StoredMode(rows, chat_id, mode) == [ chat_id |-> chat_id, mode |-> mode ] \in rows
NoStoredMode(rows, chat_id) == \A r \in rows : r.chat_id # chat_id
InGroup(e) == e.chat.type \in { "group", "supergroup" }
\* the rows of user u under key k
Entries(rows, u, k) == { r \in rows : r.user_id = u /\ r.k = k }
k_name == << "n","a","m","e" >>
\* the text holds the wake-word
HasWakeWord(t) == Contains(lower(t), w_madara)
\* the text is neither a remember nor a forget intent
NoIntent(t) == extract_remember_intent(strip(t)) = NoMatch /\ wants_forget(strip(t)) = NoMatch

(***************************************************************************)
(* C1. A valid "/remember key=value" message of user u, dispatched through *)
(* the registered handlers, leaves exactly one entry for (u, key), and it  *)
(* holds the value.  The code does not do this: no CommandHandler is       *)
(* registered for "remember" and the MessageHandler excludes commands.     *)
(***************************************************************************)
C1_RememberCommandSaves ==
    (Sent /\ Verified(last.ev) /\ last.ev.text \in { t_cmd_remember_rex, t_cmd_remember_pain })
        => LET kv == CmdRemember(last.ev.text)
           IN  /\ << kv[1], kv[2] >> \in mem_get_all(memory, last.ev.user)
               /\ Cardinality(Entries(memory, last.ev.user, kv[1])) = 1

(***************************************************************************)
(* C2. "/forget k" for a key k the user has not saved is answered with the *)
(* "I didn't have that saved" reply and leaves table memory unchanged.     *)
(* The code sends no reply: the command reaches no handler.                *)
(***************************************************************************)
C2_ForgetCommandUnknownKey ==
    (/\ Sent /\ Verified(last.ev)
     /\ last.ev.text \in { t_cmd_forget_name, t_cmd_forget_city }
     /\ Entries(last.memory0, last.ev.user, CmdForget(last.ev.text)) = {})
        => /\ Replies(last.trace) = << Send("not_saved", {}) >>
           /\ memory = last.memory0

(***************************************************************************)
(* C3. A user who passes the gate sends "forget my name": when the entry   *)
(* (u, name) exists it is removed (and nothing else) and the one reply is  *)
(* the confirmation; when it does not exist, as when the text is sent      *)
(* again, the one reply is "didn't have that saved" and table memory is    *)
(* unchanged.                                                              *)
(***************************************************************************)
C3_ForgetMyName ==
    (Sent /\ Verified(last.ev) /\ last.ev.text = t_forget_name)
        => IF Entries(last.memory0, last.ev.user, k_name) # {}
           THEN /\ memory = last.memory0 \ Entries(last.memory0, last.ev.user, k_name)
                /\ Replies(last.trace) = << Send("deleted", {}) >>
           ELSE /\ memory = last.memory0
                /\ Replies(last.trace) = << Send("not_saved", {}) >>

C3_Witness ==
    /\ Sent /\ Verified(last.ev) /\ last.ev.text = t_forget_name
    /\ Entries(last.memory0, last.ev.user, k_name) # {}
    /\ Entries(memory, last.ev.user, k_name) = {}
    /\ Replies(last.trace) = << Send("deleted", {}) >>

(***************************************************************************)
(* C4. In a group whose mode is mention (stored or defaulted), a text      *)
(* message without the wake-word that is not a reply to a message of this  *)
(* bot gets no outbound reply.  Stated for the messages the reply policy   *)
(* decides (a verified sender, no memory intent); the code still replies   *)
(* when the message answers any other bot.                                 *)
(***************************************************************************)
C4_MentionModeSilent ==
    (/\ Sent /\ Verified(last.ev) /\ InGroup(last.ev)
     /\ last.ev.text # << >> /\ last.handler = "on_message"
     /\ \/ StoredMode(last.group_settings0, last.ev.chat.id, w_mention)
        \/ NoStoredMode(last.group_settings0, last.ev.chat.id)
     /\ NoIntent(last.ev.text)
     /\ ~HasWakeWord(last.ev.text)
     /\ last.ev.reply_to # "this_bot")
        => Replies(last.trace) = << >>

(***************************************************************************)
(* C5, as the spec states it. In a group whose mode is always, every       *)
(* inbound message that is no remember/forget intent gets exactly one      *)
(* outbound reply.                                                         *)
(***************************************************************************)
C5_AlwaysModeOneReply_Original ==
    (/\ Sent /\ InGroup(last.ev)
     /\ StoredMode(last.group_settings0, last.ev.chat.id, w_always)
     /\ NoIntent(last.ev.text))
        => Len(Replies(last.trace)) = 1

(***************************************************************************)
(* C5, amended. In a group whose mode is always, a text message of a user  *)
(* that is no bot command and no remember/forget intent gets the denial    *)
(* notice when the gate denies, the generated reply when the gate allows   *)
(* and the reply generator returns, and nothing when the generator raises: *)
(* never more than one message.                                            *)
(***************************************************************************)
C5_AlwaysModeOneReply ==
    (/\ Sent /\ InGroup(last.ev)
     /\ StoredMode(last.group_settings0, last.ev.chat.id, w_always)
     /\ last.ev.text # << >> /\ ~IsCommand(last.ev)
     /\ NoIntent(last.ev.text))
        => Replies(last.trace) =
              IF ~Verified(last.ev) THEN << Send("must_join", {}) >>
              ELSE IF last.ev.ai_ok THEN << Send("ai_reply", {}) >>
              ELSE << >>

C5_Witness ==
    /\ Sent /\ InGroup(last.ev) /\ Verified(last.ev)
    /\ StoredMode(last.group_settings0, last.ev.chat.id, w_always)
    /\ last.ev.text = t_hello /\ last.ev.reply_to = "none"
    /\ Replies(last.trace) = << Send("ai_reply", {}) >>

(***************************************************************************)
(* C6, as the spec states it. With a gating channel configured, every      *)
(* update of a user that reaches the gate is denied, with the denial       *)
(* message, when the membership query fails or returns a status outside    *)
(* member, administrator, creator; and is allowed only when the query      *)
(* returned one of the three.                                              *)
(***************************************************************************)
C6_FailClosed_Original ==
    (/\ last # Idle /\ REQUIRED_CHANNEL # "" /\ last.gate # "not_called"
     /\ last.ev.user \in Users)
        => /\ last.ev.status \notin { "member", "administrator", "creator" }
                => /\ last.gate = "deny"
                   /\ Replies(last.trace) = << Send("must_join", {}) >>
           /\ last.gate = "allow"
                => Step("get_chat_member", last.ev.status, {}) \in
                       { last.trace[i] : i \in DOMAIN last.trace }

(***************************************************************************)
(* C6, amended. With a gating channel configured, every update that has a  *)
(* sender and that the gate is asked about is denied when the membership   *)
(* query fails or returns a status outside member, administrator, creator, *)
(* and is allowed only after the query returned one of the three; a denied *)
(* update gets the denial message, once and as its only outbound message,  *)
(* when it carries update.message, and none when it is an edited message.  *)
(* An update with no sender is allowed without a membership query.         *)
(***************************************************************************)
C6_FailClosed ==
    (last # Idle /\ REQUIRED_CHANNEL # "" /\ last.gate # "not_called")
        => IF last.ev.user \in Users
           THEN /\ last.trace[1] = Step("get_chat_member", last.ev.status, {})
                /\ last.gate = "allow"
                     <=> last.ev.status \in { "member", "administrator", "creator" }
                /\ last.gate = "deny"
                     => Replies(last.trace) =
                            IF last.ev.kind = "message"
                            THEN << Send("must_join", {}) >> ELSE << >>
           ELSE /\ last.gate = "allow"
                /\ \A i \in DOMAIN last.trace : last.trace[i].op # "get_chat_member"

C6_Witness ==
    /\ Sent /\ REQUIRED_CHANNEL # "" /\ last.ev.status = "error"
    /\ last.gate = "deny"
    /\ Replies(last.trace) = << Send("must_join", {}) >>
    /\ memory = last.memory0

(***************************************************************************)
(* C7. With a gating channel configured, no interaction proceeds for a     *)
(* user who is not a verified member: whatever the handler, the message of *)
(* such a user gets no outbound message other than the denial notice, and  *)
(* no table is read or written for it.  The code does not ask the gate in  *)
(* help_cmd and mode_cmd.                                                  *)
(***************************************************************************)
C7_GateBeforeAnything ==
    (Sent /\ ~Verified(last.ev))
        => \A i \in DOMAIN last.trace :
              /\ last.trace[i].op \notin StorageOps
              /\ last.trace[i].op = "reply_text" => last.trace[i].msg = "must_join"

(***************************************************************************)
(* C8, as the spec states it. An update from a user who is not the owner   *)
(* never changes any chat's mode, whatever OWNER_ID is, unset included.    *)
(***************************************************************************)
C8_OwnerOnly_Original ==
    (last # Idle /\ last.ev.user \in Users /\ last.ev.user # OWNER_ID)
        => group_settings = last.group_settings0

(***************************************************************************)
(* C8, amended. Table group_settings changes only by a /mode command       *)
(* message in a group, and then only in the row of that group; when an     *)
(* owner identifier is configured the command is the owner's, so that an   *)
(* update of any other user never changes any chat's mode; when none is    *)
(* configured the command is accepted from any sender.                     *)
(***************************************************************************)
C8_OwnerOnly ==
    /\ (last # Idle /\ group_settings # last.group_settings0)
          => /\ last.handler = "mode_cmd" /\ last.ev.kind = "message" /\ InGroup(last.ev)
             /\ OWNER_ID # 0 => last.ev.user = OWNER_ID
             /\ \A r \in group_settings \ last.group_settings0 : r.chat_id = last.ev.chat.id
             /\ \A r \in last.group_settings0 \ group_settings : r.chat_id = last.ev.chat.id
    /\ (/\ Sent /\ OWNER_ID = 0 /\ InGroup(last.ev)
        /\ last.ev.text = t_mode_always)
          => StoredMode(group_settings, last.ev.chat.id, w_always)

C8_Witness ==
    /\ Sent /\ OWNER_ID # 0 /\ last.ev.user # OWNER_ID
    /\ InGroup(last.ev) /\ last.ev.text = t_mode_always
    /\ last.handler = "mode_cmd"
    /\ Replies(last.trace) = << Send("only_owner", {}) >>
    /\ group_settings = last.group_settings0

(***************************************************************************)
(* C9. A malformed /remember (no argument, or no "=") is answered with a   *)
(* user-visible usage message and changes no table.  The code answers      *)
(* nothing: it has no usage message for /remember, and the command reaches *)
(* no handler.                                                             *)
(***************************************************************************)
C9_MalformedRememberUsage ==
    (/\ Sent /\ Verified(last.ev)
     /\ last.ev.text \in { t_cmd_remember_nokey, t_cmd_remember_noeq })
        => /\ Len(Replies(last.trace)) = 1
           /\ memory = last.memory0
           /\ group_settings = last.group_settings0

C11_NoChannelAllowsAll ==
    (last # Idle /\ REQUIRED_CHANNEL = "" /\ last.gate # "not_called")
        => /\ last.gate = "allow"
           /\ \A i \in DOMAIN last.trace :
                 /\ last.trace[i].op # "get_chat_member"
                 /\ last.trace[i] # Send("must_join", {})

C11_Witness ==
    /\ Sent /\ REQUIRED_CHANNEL = "" /\ last.ev.status = "kicked"
    /\ last.handler = "start_cmd" /\ last.gate = "allow"
    /\ last.trace = << Send("welcome", {}) >>

(***************************************************************************)
(* C12. Every row of table memory has a key of 1 to 32 characters, each in *)
(* [a-z0-9_-], and a value of at most 200 characters, and no two rows      *)
(* share (user_id, k), whichever remember form wrote the row.  The code    *)
(* stores keys outside the character set: under re.I the class             *)
(* [a-zA-Z0-9_\-] also matches U+017F, U+0130, U+0131 and U+212A.          *)
(***************************************************************************)
C12_EntriesWellFormed ==
    /\ \A r \in memory :
          /\ Len(r.k) >= 1 /\ Len(r.k) <= MaxKeyLen
          /\ \A i \in DOMAIN r.k : r.k[i] \in Lower \cup Digit \cup { "_", "-" }
          /\ Len(r.v) <= MaxValueLen
    /\ \A r1, r2 \in memory : (r1.user_id = r2.user_id /\ r1.k = r2.k) => r1 = r2

(***************************************************************************)
(* C13, as the spec states it. In a private chat every text message of a   *)
(* user the gate allows (bot commands, which have their own handlers, set  *)
(* aside) proceeds to reply generation.                                    *)
(***************************************************************************)
C13_DirectChatGenerates_Original ==
    (/\ Sent /\ Verified(last.ev) /\ last.ev.chat.type = "private"
     /\ last.ev.text # << >> /\ ~IsCommand(last.ev))
        => \E i \in DOMAIN last.trace : last.trace[i].op = "ai_reply"

(***************************************************************************)
(* C13, amended. In a private chat every text message of a user the gate   *)
(* allows that is no bot command and no remember/forget intent proceeds to *)
(* reply generation, with or without the wake-word and whatever modes are  *)
(* stored: the mode is not read, the reply generator is called once, and   *)
(* its reply is the one outbound message (none when the generator raises). *)
(***************************************************************************)
C13_DirectChatGenerates ==
    (/\ Sent /\ Verified(last.ev) /\ last.ev.chat.type = "private"
     /\ last.ev.text # << >> /\ ~IsCommand(last.ev)
     /\ NoIntent(last.ev.text))
        => /\ last.handler = "on_message"
           /\ Cardinality({ i \in DOMAIN last.trace : last.trace[i].op = "ai_reply" }) = 1
           /\ \A i \in DOMAIN last.trace : last.trace[i].op # "group_get_mode"
           /\ Replies(last.trace) =
                 IF last.ev.ai_ok THEN << Send("ai_reply", {}) >> ELSE << >>

C13_Witness ==
    /\ Sent /\ Verified(last.ev) /\ last.ev.chat.type = "private"
    /\ last.ev.text = t_hello /\ last.ev.reply_to = "none"
    /\ \E r \in last.group_settings0 : r.mode = w_mention
    /\ \E i \in DOMAIN last.trace : last.trace[i].op = "ai_reply"
    /\ Replies(last.trace) = << Send("ai_reply", {}) >>

(***************************************************************************)
(* C14. Handling one update makes at most one call that writes a table     *)
(* (mem_set, mem_del, group_set_mode) and at most one call of the reply    *)
(* generator, and never both: when a table changed, the change came from   *)
(* the one write and the generator was not called; when the generator was  *)
(* called, both tables are as they were.                                   *)
(***************************************************************************)
C14_OneWriteOrOneGeneration ==
    last # Idle =>
        LET writes == { i \in DOMAIN last.trace :
                          last.trace[i].op \in { "mem_set", "mem_del", "group_set_mode" } }
            calls == { i \in DOMAIN last.trace : last.trace[i].op = "ai_reply" }
            changed == memory # last.memory0 \/ group_settings # last.group_settings0
        IN  /\ Cardinality(writes) <= 1
            /\ Cardinality(calls) <= 1
            /\ writes = {} \/ calls = {}
            /\ changed => (Cardinality(writes) = 1 /\ calls = {})
            /\ calls # {} => ~changed

C14_Witness ==
    /\ Sent /\ last.ev.text = t_remember_pain
    /\ memory # last.memory0 /\ last.memory0 # {}
    /\ Cardinality({ i \in DOMAIN last.trace : last.trace[i].op = "mem_set" }) = 1
    /\ \A i \in DOMAIN last.trace : last.trace[i].op # "ai_reply"

(***************************************************************************)
(* C15. Requests handled at the same time that write the same (user, key), *)
(* two remembers with different values or a remember and a forget: in      *)
(* every interleaving table memory holds at most one row of (user, key),   *)
(* and what it holds for a user is what the last of that user's writes     *)
(* left (the value of the last remember, or no row after a forget),        *)
(* whatever the requests of the other users wrote.                         *)
(***************************************************************************)
C15_LastWriteWins ==
    \A u \in Users :
        LET mine == { t \in Writers : tasks[t].ev.user = u }
            latest == CHOOSE t \in mine : \A o \in mine : tasks[o].rank <= tasks[t].rank
            rem == extract_remember_intent(tasks[latest].ev.text)
        IN  /\ Cardinality(Entries(memory, u, k_name)) <= 1
            /\ mem_get_all(memory, u) =
                  IF mine = {} THEN {}
                  ELSE IF rem # NoMatch THEN { << rem[1], rem[2] >> }
                  ELSE {}

C15_Witness ==
    /\ REQUIRED_CHANNEL # ""
    /\ tasks[1].pc = "done" /\ tasks[2].pc = "done"
    /\ tasks[1].ev.user = tasks[2].ev.user
    /\ tasks[1].ev.text = t_remember_rex /\ tasks[2].ev.text = t_remember_pain
    /\ tasks[1].rank > tasks[2].rank
    /\ Cardinality(Entries(memory, tasks[1].ev.user, k_name)) = 1
    /\ << k_name, << "R","e","x" >> >> \in mem_get_all(memory, tasks[1].ev.user)

(***************************************************************************)
(* C16. The intent of a text is the first form that matches, in the order  *)
(* command remember, natural-language remember, looser remember, forget:   *)
(* the command form wins over a natural-language form in its value, the    *)
(* natural-language form wins over a looser form that starts earlier in    *)
(* the text, and a message with both a forget and a remember sentence that *)
(* on_message answers is a remember only: one mem_set, no mem_del, the one *)
(* reply is the "saved" confirmation, and the row holds the new value.     *)
(***************************************************************************)
C16_RememberBeforeForget ==
    LET v_rex == << "R","e","x" >>
        writes == { i \in DOMAIN last.trace : last.trace[i].op \in { "mem_set", "mem_del" } }
    IN  /\ (last # Idle /\ last.ev.text = t_cmd_remember_then_nl)
              => extract_remember_intent(last.ev.text)
                    = << << "a" >>, SubSeq(t_cmd_remember_then_nl, 13, 35) >>
        /\ (last # Idle /\ last.ev.text = t_remember_loose_then_nl)
              => extract_remember_intent(last.ev.text) = << k_name, v_rex >>
        /\ (Sent /\ last.gate = "allow" /\ last.ev.text = t_forget_then_remember)
              => /\ extract_remember_intent(last.ev.text) = << k_name, v_rex >>
                 /\ wants_forget(last.ev.text) = k_name
                 /\ Cardinality(writes) = 1
                 /\ \A i \in writes : last.trace[i].op = "mem_set"
                 /\ Replies(last.trace) = << Send("saved", { << k_name, v_rex >> }) >>
                 /\ memory = { r \in last.memory0 : ~(r.user_id = last.ev.user /\ r.k = k_name) }
                                \cup { [ user_id |-> last.ev.user, k |-> k_name, v |-> v_rex ] }

C16_Witness ==
    /\ Sent /\ last.gate = "allow" /\ last.ev.text = t_forget_then_remember
    /\ \E r \in last.memory0 : r.user_id = last.ev.user /\ r.k = k_name /\ r.v # << "R","e","x" >>
    /\ << k_name, << "R","e","x" >> >> \in mem_get_all(memory, last.ev.user)
    /\ Cardinality(Entries(memory, last.ev.user, k_name)) = 1
    /\ Len(Replies(last.trace)) = 1

(***************************************************************************)
(* C17. Handling an update sent by user u leaves the rows of table memory  *)
(* of every other user as they were.  Table group_settings changes only by *)
(* a /mode command that is accepted (in a group, from a sender the owner   *)
(* check lets through, with the argument mention or always), and then only *)
(* in the row of that group; reading the mode of a chat that has no row    *)
(* creates none.                                                           *)
(***************************************************************************)
C17_FrameOfTables ==
    last # Idle =>
        /\ { r \in memory : r.user_id # last.ev.user }
              = { r \in last.memory0 : r.user_id # last.ev.user }
        /\ group_settings # last.group_settings0
              => /\ last.handler = "mode_cmd" /\ InGroup(last.ev)
                 /\ OWNER_ID = 0 \/ last.ev.user = OWNER_ID
                 /\ SecondToken(last.ev.text) \in { w_mention, w_always }
                 /\ { r \in group_settings : r.chat_id # last.ev.chat.id }
                       = { r \in last.group_settings0 : r.chat_id # last.ev.chat.id }
        /\ (/\ \E i \in DOMAIN last.trace : last.trace[i].op = "group_get_mode"
            /\ NoStoredMode(last.group_settings0, last.ev.chat.id))
              => group_settings = last.group_settings0

C17_Witness ==
    /\ Sent /\ last.ev.text = t_forget_name
    /\ last.group_settings0 # {}
    /\ \E r \in last.memory0 : r.user_id = last.ev.user
    /\ \E r \in last.memory0 : r.user_id # last.ev.user
    /\ \A r \in memory : r.user_id # last.ev.user
    /\ memory # {}

(***************************************************************************)
(* C18, as the spec states it. An update of a user that the gate denies,   *)
(* in start_cmd, mydata_cmd or on_message, changes neither table, calls    *)
(* the reply generator not at all, and is answered with exactly the denial *)
(* notice.                                                                 *)
(***************************************************************************)
C18_DeniedDoesNothing_Original ==
    (last # Idle /\ last.gate = "deny" /\ last.ev.user \in Users)
        => /\ memory = last.memory0
           /\ group_settings = last.group_settings0
           /\ \A i \in DOMAIN last.trace : last.trace[i].op # "ai_reply"
           /\ Replies(last.trace) = << Send("must_join", {}) >>

(***************************************************************************)
(* C18, amended. An update that the gate denies, in start_cmd, mydata_cmd  *)
(* or on_message, changes neither table, makes no storage call and no call *)
(* of the reply generator, and raises nothing; its only outbound message   *)
(* is the denial notice, sent once when the update carries update.message  *)
(* and not at all when it is an edited message.                            *)
(***************************************************************************)
C18_DeniedDoesNothing ==
    (last # Idle /\ last.gate = "deny")
        => /\ last.handler \in { "start_cmd", "mydata_cmd", "on_message" }
           /\ memory = last.memory0
           /\ group_settings = last.group_settings0
           /\ \A i \in DOMAIN last.trace :
                 last.trace[i].op \notin StorageOps \cup { "ai_reply", "raise" }
           /\ Replies(last.trace) =
                 IF last.ev.kind = "message" THEN << Send("must_join", {}) >> ELSE << >>

C18_Witness ==
    /\ Sent /\ last.gate = "deny" /\ last.handler = "on_message"
    /\ last.ev.text = t_remember_rex /\ last.ev.status = "left"
    /\ last.memory0 # {} /\ memory = last.memory0
    /\ Replies(last.trace) = << Send("must_join", {}) >>

====
